---- MODULE Spec2Model ----
(***************************************************************************)
(* The chunked long-audio separation pipeline of AudioProcessor            *)
(* (src/src/backend/audio_processor.py): separate_tracks, _separate_chunks *)
(* and _simulate_track_separation, as a state machine.                     *)
(*                                                                         *)
(* Abstractions.  Sample values are not modelled: the output buffer        *)
(* all_sources (torch.zeros at creation) is the sequence of sample ranges  *)
(* that have been assigned so far, every other position still being zero.  *)
(* Percentages are exact rationals num/den (Python computes them in        *)
(* double precision).  The separation model, the audio loader, the         *)
(* progress callback and the file writer are external: each call's outcome *)
(* is chosen nondeterministically.                                         *)
(***************************************************************************)
EXTENDS Integers, Sequences, FiniteSets, TLC

VARIABLES
    pc,                      \* position of the call
    caller,                  \* "separate_tracks" | "_separate_chunks" (method called on its own)
    demucs_available,        \* self._demucs_available
    device,                  \* self.device
    loadable,                \* whether the audio file can be read
    progress_callback,       \* "none" | "ok" | "raising" (may raise when called)
    model_sources,           \* len(self.model.sources)
    total_length,            \* wav_tensor.shape[1]
    seg_length,              \* seg_length parameter of _separate_chunks
    overlap_length,          \* overlap_length parameter of _separate_chunks
    real_segment_stride,
    actual_num_segments,
    max_segments,
    segment_start,
    segment_count,
    last_segment_start,
    last_segment_end,
    current_progress,        \* numerator of the percentage, over total_length
    consecutive_no_progress,
    processing_times,
    broke,                   \* the while loop was left by break
    sources_count,           \* sources.shape[0] of the buffer handed back
    all_sources,             \* ranges assigned in the output buffer, in order
    returned,                \* what _separate_chunks returned: "nothing" | "model_output" | "all_sources"
    sources_list,
    export_index,            \* i of the export / simulation loop
    track_paths,
    result,                  \* "pending" | "tracks" | "none" | "raised" | "buffer"
    delivered,               \* values handed to the progress sink, in order
    calls,                   \* model calls made, in order
    iters,                   \* passes through the while body
    passes,                  \* per pass: playhead at its start and end, and how it ended
    write_errors,            \* indices of the sources whose sf.write raised
    chunk_times,             \* every chunk_time appended to processing_times, in order
    model,                   \* self.model: the loaded object, or NoModel when never assigned
    model_name,              \* self.model_name
    model_cache,             \* self._model_cache: model name -> loaded object
    fetch_log,               \* every _load_model call, in order: its name and how it went
    change_returns           \* what each change_model call returned, in order

modelv  == <<model, model_name, model_cache, fetch_log, change_returns>>
inputs  == <<caller, demucs_available, device, loadable, progress_callback, model_sources,
             modelv>>
params  == <<total_length, seg_length, overlap_length>>
plan    == <<real_segment_stride, actual_num_segments, max_segments>>
loopv   == <<segment_start, segment_count, last_segment_start, last_segment_end,
             current_progress, consecutive_no_progress, processing_times, broke>>
bufv    == <<sources_count, all_sources, returned>>
exportv == <<sources_list, export_index, track_paths>>
ghost   == <<calls, iters, passes, write_errors, chunk_times>>
vars    == <<pc, inputs, params, plan, loopv, bufv, exportv, result, delivered, ghost>>

----------------------------------------------------------------------------
(* Configuration, src/src/utils/config.py *)

SAMPLE_RATE == 44100
DEMUCS_SEGMENT == 10
\* DEMUCS_OVERLAP = 0.1, as the fraction OVERLAP_NUM / OVERLAP_DEN
OVERLAP_NUM == 1
OVERLAP_DEN == 10
\* optimal_segment = min(DEMUCS_SEGMENT, 6.0) on CPU
CPU_SEGMENT_CAP == 6
\* max_segments = min(actual_num_segments * 2, 1000)
SEGMENT_CAP == 1000
\* utils/config.py:25, and the alternative of __init__ (line 83)
DEMUCS_MODEL == "htdemucs"
FALLBACK_MODEL == "htdemucs"
max_no_progress == 3
\* the separation phase's share of the percentage, and the top of the scale
SEPARATION_SHARE == 80
EXPORT_SHARE == 20
FULL_PROGRESS == 100
DIRECT_FIRST_PROGRESS == 10
\* len(instruments) of the simulated separation
SIMULATED_INSTRUMENTS == 6

(* Bounds of the model *)
MaxLen == 7          \* total_length of a call made straight to _separate_chunks
MaxWin == 4          \* its seg_length
MaxOvl == 4          \* its overlap_length
MaxIters == 8        \* passes through the while body that are followed
MaxSources == 2      \* source counts of the model and of its replies
MaxDur == 1          \* distinct wall-clock durations of a pass
MaxMalformedLen == 5 \* longest signal for which malformed replies are followed
MaxTimed == 7        \* windows timed in SpecTimes
\* change_model calls made on one object
MaxChanges == 3
\* the models app.py recommends (lines 356-358) that can be asked for
ModelNames == {"htdemucs", "htdemucs_ft", "mdx"}
LoadOutcomes == {"ok", "get_model", "to"}
MaxTime == 2         \* distinct wall-clock durations of a window in SpecTimes

\* Lengths (in samples) of the files given to separate_tracks: shorter than the
\* overlap, equal to it, at most one segment, and several segments long.
TrackLengths == {3000, 4410, 264600, 441000, 600000}

\* Arguments of _separate_chunks besides the small ones: 40 s of audio in
\* windows of 10 s overlapping by 0.1 s; and a signal of many short windows,
\* each less than 1 % of it
Scenarios == {[total |-> 1764000, seg |-> 441000, ovl |-> 4410],
              [total |-> 250, seg |-> 3, ovl |-> 1]}

----------------------------------------------------------------------------
(* Arithmetic of the source *)

Min(a, b) == IF a <= b THEN a ELSE b
Max(a, b) == IF a >= b THEN a ELSE b
Abs(a) == IF a >= 0 THEN a ELSE -a

\* int(np.ceil(a / b)) for b # 0
CeilDiv(a, b) ==
    LET n == IF b < 0 THEN -a ELSE a
        d == IF b < 0 THEN -b ELSE b
    IN  -((-n) \div d)

\* Bounds of the slice [start:stop] of a dimension of size n (negative indices
\* count from the end, both ends are clamped), and its length.
PyIndex(i, n) == IF i < 0 THEN Max(i + n, 0) ELSE Min(i, n)
PySliceLen(start, stop, n) == Max(0, PyIndex(stop, n) - PyIndex(start, n))

\* an assignment that takes any right-hand side
CopyFitsAny(dstLen, srcLen) == TRUE
\* x[..., a:b] = y[..., c:d] succeeds when the lengths agree or the right-hand
\* side has length 1 (broadcast).
CopyFits(dstLen, srcLen) == srcLen = dstLen \/ srcLen = 1

----------------------------------------------------------------------------
(* External outcomes *)

Callbacks == {"none", "ok", "raising"}
Devices == {"cpu", "cuda"}
\* apply_model returns per-source audio as long as its input ("ok") or raises
\* ("raise")
Replies == {"ok", "raise"}
\* ... or returns a tensor of another shape, here one without samples
Malformed == {"empty"}
\* whether a call of the progress callback raises
CbRaises == IF progress_callback = "raising" THEN {FALSE, TRUE} ELSE {FALSE}
HasCallback == progress_callback # "none"

Pct(phase, num, den) == [phase |-> phase, num |-> num, den |-> den]
Call(kind, lo, hi, reply) == [kind |-> kind, lo |-> lo, hi |-> hi, reply |-> reply]
Returned(kind, call, sources, length) ==
    [kind |-> kind, call |-> call, sources |-> sources, length |-> length]
ReplyLength(reply, n) == IF reply = "ok" THEN n ELSE 0

\* An exception leaving _separate_chunks is caught by separate_tracks' handler
\* (return None); a caller of the method itself sees the exception.
RaisedOutcome == IF caller = "separate_tracks" THEN "none" ELSE "raised"
\* _separate_chunks returned a tensor: separate_tracks goes on to save it
AfterReturn == IF caller = "separate_tracks" THEN "save" ELSE "done"
ReturnOutcome == IF caller = "separate_tracks" THEN "pending" ELSE "buffer"

----------------------------------------------------------------------------
(* Construction and the call *)

----------------------------------------------------------------------------
(* __init__, lines 33-94, and _load_model, lines 96-123 *)

NoModel == [name |-> "", id |-> 0]
EmptyCache == [n \in {} |-> NoModel]

\* get_model was called for this _load_model call
Fetched(e) == e.how \in {"ok", "get_model", "to"}
\* get_model returns a new object each time it returns
NewModel(log, name) ==
    [name |-> name,
     id |-> Cardinality({i \in 1..Len(log) : log[i].how \in {"ok", "to"}}) + 1]

\* _load_model caching the object as soon as get_model has returned it
LoadModelEarlyCache(cache, log, name, outcome) ==
    IF name \in DOMAIN cache
    THEN [raised |-> FALSE, model |-> cache[name], cache |-> cache,
          log |-> Append(log, [name |-> name, how |-> "cached"])]
    ELSE [raised |-> outcome # "ok",
          model |-> IF outcome = "ok" THEN NewModel(log, name) ELSE NoModel,
          cache |-> IF outcome = "get_model" THEN cache
                    ELSE (name :> NewModel(log, name)) @@ cache,
          log |-> Append(log, [name |-> name, how |-> outcome])]

\* _load_model(model_name); outcome is where the loading ends: "ok", or the
\* call that raises, get_model (line 116) or model.to (line 119)
LoadModel(cache, log, name, outcome) ==
    IF name \in DOMAIN cache
    THEN [raised |-> FALSE, model |-> cache[name], cache |-> cache,
          log |-> Append(log, [name |-> name, how |-> "cached"])]
    ELSE IF outcome = "ok"
    THEN [raised |-> FALSE, model |-> NewModel(log, name),
          cache |-> (name :> NewModel(log, name)) @@ cache,
          log |-> Append(log, [name |-> name, how |-> "ok"])]
    ELSE [raised |-> TRUE, model |-> NoModel, cache |-> cache,
          log |-> Append(log, [name |-> name, how |-> outcome])]

\* the object after AudioProcessor(model_name=name): imports tells whether
\* torch and demucs could be imported, first and second where the load of
\* the requested and of the alternative model end
Construct(name, imports, first, second) ==
    IF ~imports
    THEN [available |-> FALSE, model |-> NoModel, model_name |-> name,
          cache |-> EmptyCache, log |-> <<>>]
    ELSE LET l1 == LoadModel(EmptyCache, <<>>, name, first)
             l2 == LoadModel(l1.cache, l1.log, FALLBACK_MODEL, second)
         IN  IF ~l1.raised
             THEN [available |-> TRUE, model |-> l1.model, model_name |-> name,
                   cache |-> l1.cache, log |-> l1.log]
             ELSE [available |-> ~l2.raised, model |-> l2.model,
                   model_name |-> FALLBACK_MODEL, cache |-> l2.cache, log |-> l2.log]

Built(c) ==
    /\ model = c.model /\ model_name = c.model_name /\ model_cache = c.cache
    /\ fetch_log = c.log /\ change_returns = <<>>

\* AudioProcessor(): the configured model, loaded where the capability is there
DefaultBuilt == Built(Construct(DEMUCS_MODEL, demucs_available, "ok", "ok"))

NoRun ==
    /\ real_segment_stride = 0 /\ actual_num_segments = 0 /\ max_segments = 0
    /\ segment_start = 0 /\ segment_count = 0
    /\ last_segment_start = -1 /\ last_segment_end = 0
    /\ current_progress = 0 /\ consecutive_no_progress = 0
    /\ processing_times = <<>> /\ broke = FALSE
    /\ sources_count = 0 /\ all_sources = <<>>
    /\ returned = Returned("nothing", 0, 0, 0)
    /\ sources_list = <<>> /\ export_index = 0 /\ track_paths = {}
    /\ result = "pending" /\ delivered = <<>>
    /\ calls = <<>> /\ iters = 0 /\ passes = <<>> /\ write_errors = {}
    /\ chunk_times = <<>>

\* _separate_chunks called with its own arguments
InitChunks ==
    /\ caller = "_separate_chunks" /\ pc = "_separate_chunks"
    /\ demucs_available = TRUE /\ device = "cpu" /\ loadable = TRUE
    /\ model_sources = 1
    /\ progress_callback \in Callbacks
    /\ \E a \in [total : 1..MaxLen, seg : 1..MaxWin, ovl : 0..MaxOvl] \cup Scenarios :
         /\ total_length = a.total
         /\ seg_length = a.seg
         /\ overlap_length = a.ovl
    /\ NoRun /\ DefaultBuilt

\* separate_tracks called on a file
InitTracks ==
    /\ caller = "separate_tracks" /\ pc = "separate_tracks"
    /\ demucs_available \in BOOLEAN /\ device \in Devices /\ loadable \in BOOLEAN
    /\ model_sources \in 1..MaxSources
    /\ progress_callback \in Callbacks
    /\ total_length \in TrackLengths
    /\ seg_length = 0 /\ overlap_length = 0
    /\ NoRun /\ DefaultBuilt

Init == InitChunks \/ InitTracks

----------------------------------------------------------------------------
(* separate_tracks, lines 165-230 *)

SegmentSamples ==
    IF device = "cuda" THEN DEMUCS_SEGMENT * SAMPLE_RATE
    ELSE Min(DEMUCS_SEGMENT, CPU_SEGMENT_CAP) * SAMPLE_RATE
OverlapSamples == (OVERLAP_NUM * SAMPLE_RATE) \div OVERLAP_DEN

LoadAndPlan ==
    /\ pc = "separate_tracks" /\ demucs_available
    /\ IF ~loadable
       THEN \* AudioFile(...).read raises, caught at line 313
            /\ pc' = "done" /\ result' = "none"
            /\ UNCHANGED params
       ELSE LET seg == Min(SegmentSamples, total_length)
                ovl == OverlapSamples
            IN  /\ seg_length' = seg /\ overlap_length' = ovl
                /\ UNCHANGED total_length
                /\ IF seg - ovl = 0
                   THEN \* padded_length / (seg_length - overlap_length): ZeroDivisionError
                        pc' = "done" /\ result' = "none"
                   ELSE pc' = "_separate_chunks" /\ UNCHANGED result
    /\ UNCHANGED <<inputs, plan, loopv, bufv, exportv, delivered, ghost>>

----------------------------------------------------------------------------
(* _separate_chunks, direct path, lines 342-362 *)

\* the comparison taken strictly: a signal exactly one segment long is chunked
DirectModeStrict(total, seg) == total < seg
DirectMode(total, seg) == total <= seg

DirectPath ==
    /\ pc = "_separate_chunks"
    /\ DirectMode(total_length, seg_length)
    /\ \E r1 \in CbRaises, reply \in Replies, n \in 1..MaxSources, r2 \in CbRaises :
         LET first == IF HasCallback
                      THEN Append(delivered, Pct("separation", DIRECT_FIRST_PROGRESS, 1))
                      ELSE delivered
             last  == IF HasCallback
                      THEN Append(first, Pct("separation", SEPARATION_SHARE, 1))
                      ELSE first
             call  == Call("direct", 0, total_length, reply)
         IN  IF r1
             THEN /\ delivered' = first /\ calls' = calls
                  /\ pc' = "done" /\ result' = RaisedOutcome
                  /\ UNCHANGED <<sources_count, returned>>
             ELSE IF reply = "raise"
             THEN /\ delivered' = first /\ calls' = Append(calls, call)
                  /\ pc' = "done" /\ result' = RaisedOutcome
                  /\ UNCHANGED <<sources_count, returned>>
             ELSE IF r2
             THEN /\ delivered' = last /\ calls' = Append(calls, call)
                  /\ pc' = "done" /\ result' = RaisedOutcome
                  /\ UNCHANGED <<sources_count, returned>>
             ELSE /\ delivered' = last /\ calls' = Append(calls, call)
                  /\ sources_count' = n
                  /\ returned' = Returned("model_output", Len(calls) + 1, n,
                                          ReplyLength(reply, total_length))
                  /\ pc' = AfterReturn /\ result' = ReturnOutcome
    /\ UNCHANGED <<inputs, params, plan, loopv, all_sources, exportv, iters, passes,
                   write_errors, chunk_times>>

----------------------------------------------------------------------------
(* _separate_chunks, planning and the probe segment, lines 365-422 *)

Stride(seg, ovl) == seg - ovl
\* the quotient rounded down instead of up
ExpectedSegmentsFloor(total, seg, ovl) == (total - ovl) \div Stride(seg, ovl)
ExpectedSegments(total, seg, ovl) == CeilDiv(total - ovl, Stride(seg, ovl))
\* the cap without its factor of 2
MaxSegmentsSingle(expected) == Min(expected, SEGMENT_CAP)
MaxSegments(expected) == Min(expected * 2, SEGMENT_CAP)

\* the probe's failure handled like a window's: the loop is entered all the same
PlanAndProbeTolerant ==
    /\ pc = "_separate_chunks"
    /\ ~DirectMode(total_length, seg_length)
    /\ IF Stride(seg_length, overlap_length) = 0
       THEN \* (total_length - overlap_length) / real_segment_stride: ZeroDivisionError
            /\ pc' = "done" /\ result' = RaisedOutcome
            /\ UNCHANGED <<plan, sources_count, calls>>
       ELSE \E reply \in Replies, n \in 1..MaxSources :
              LET expected == ExpectedSegments(total_length, seg_length, overlap_length)
                  call == Call("probe", 0, Min(seg_length, total_length), reply)
              IN  /\ real_segment_stride' = Stride(seg_length, overlap_length)
                  /\ actual_num_segments' = expected
                  /\ calls' = Append(calls, call)
                  /\ sources_count' = n
                  /\ max_segments' = MaxSegments(expected)
                  /\ pc' = "loop" /\ UNCHANGED result
    /\ UNCHANGED <<inputs, params, loopv, all_sources, returned, exportv, delivered,
                   iters, passes, write_errors, chunk_times>>

PlanAndProbe ==
    /\ pc = "_separate_chunks"
    /\ ~DirectMode(total_length, seg_length)
    /\ IF Stride(seg_length, overlap_length) = 0
       THEN \* (total_length - overlap_length) / real_segment_stride: ZeroDivisionError
            /\ pc' = "done" /\ result' = RaisedOutcome
            /\ UNCHANGED <<plan, sources_count, calls>>
       ELSE \E reply \in Replies, n \in 1..MaxSources :
              LET expected == ExpectedSegments(total_length, seg_length, overlap_length)
                  call == Call("probe", 0, Min(seg_length, total_length), reply)
              IN  /\ real_segment_stride' = Stride(seg_length, overlap_length)
                  /\ actual_num_segments' = expected
                  /\ calls' = Append(calls, call)
                  /\ IF reply = "raise"
                     THEN /\ pc' = "done" /\ result' = RaisedOutcome
                          /\ UNCHANGED <<max_segments, sources_count>>
                     ELSE /\ sources_count' = n
                          /\ max_segments' = MaxSegments(expected)
                          /\ pc' = "loop" /\ UNCHANGED result
    /\ UNCHANGED <<inputs, params, loopv, all_sources, returned, exportv, delivered,
                   iters, passes, write_errors, chunk_times>>

----------------------------------------------------------------------------
(* _separate_chunks, the chunk loop, lines 424-568 *)

LoopCond == ~broke /\ segment_start < total_length /\ segment_count < max_segments

\* no overlap trimmed at the start of any segment
OverlapStartNone(s, ovl) == 0
\* overlap trimmed at each end of the segment [s, e), lines 487-489
OverlapStart(s, ovl) == IF s = 0 THEN 0 ELSE ovl
OverlapEnd(e, total, ovl) == IF e = total THEN 0 ELSE ovl
\* the start overlap applied with the wrong sign
EffectiveStartBefore(s, ovl) == s - OverlapStart(s, ovl)
\* the segment's end taken untrimmed
EffectiveEndWhole(e, total, ovl) == e
\* effective region of the segment [s, e), lines 492-493
EffectiveStart(s, ovl) == s + OverlapStart(s, ovl)
EffectiveEnd(e, total, ovl) == e - OverlapEnd(e, total, ovl)

\* the playhead moved by half the stride
NextStartHalf(s, stride, seg, total) == Min(s + stride \div 2, total)
\* next playhead after a copied (or copy-skipped) segment, lines 520-527
NextStart(s, stride, seg, total) ==
    LET next_start == s + stride
        forced == IF next_start <= s THEN s + Max(1, seg \div 4) ELSE next_start
    IN  Min(forced, total)
\* a skipped segment that never moves the playhead backwards
SkipStartForward(s, stride, total) == Min(Max(s + stride, s), total)
\* a skipped segment that leaves the playhead where it is
SkipStartStay(s, stride, total) == Min(s, total)
\* next playhead after an empty, failed or degenerate segment, lines 467, 482, 498
SkipStart(s, stride, total) == Min(s + stride, total)

\* the separation phase scaled to the whole percentage range
NewProgressFull(s, total) == Min(Min(s, total) * FULL_PROGRESS, FULL_PROGRESS * total)
\* new_progress = min(progress_ratio * 80, 80), as a numerator over total_length
NewProgress(s, total) == Min(Min(s, total) * SEPARATION_SHARE, SEPARATION_SHARE * total)
\* any change of the percentage reported
SignificantAny(new, cur, total) == new # cur
\* abs(new_progress - current_progress) >= 1
Significant(new, cur, total) == Abs(new - cur) >= total

\* the history cut to its 5 oldest entries
KeepFirst(times) == IF Len(times) > 5 THEN SubSeq(times, 1, 5) ELSE times
\* processing_times after appending chunk_time, lines 531-535
KeepLast(times) ==
    IF Len(times) > 5 THEN SubSeq(times, Len(times) - 4, Len(times)) ELSE times

Pass(from, to, lo, hi, how) ==
    [from |-> from, to |-> to, lo |-> lo, hi |-> hi, how |-> how]

\* the jump one stalled pass later
StallJumpLate(counted) == counted > max_no_progress
\* consecutive_no_progress >= max_no_progress, line 437
StallJump(counted) == counted >= max_no_progress

\* The stall guard at the top of the while body, lines 430-453: the segment
\* [start, end) the pass goes on with, the counter it leaves, and whether the
\* pass breaks out of the loop.
StallGuard(s, last, counter, seg, total) ==
    LET stalled == s = last
        counted == IF stalled THEN counter + 1 ELSE 0
        jump    == stalled /\ StallJump(counted)
        start   == IF jump THEN Min(s + seg * 2, total) ELSE s
    IN  [start   |-> start,
         end     |-> Min(start + seg, total),
         counter |-> IF jump THEN 0 ELSE counted,
         leave   |-> jump /\ start >= total - seg \div 4]

LoopIteration ==
    /\ pc = "loop" /\ LoopCond
    /\ iters < MaxIters
    /\ \E reply \in Replies \cup Malformed, chunk_time \in 1..MaxDur, raises \in CbRaises :
        LET guard == StallGuard(segment_start, last_segment_start,
                                consecutive_no_progress, seg_length, total_length)
            s  == guard.start
            e  == guard.end
            leave == guard.leave
            length == PySliceLen(s, e, total_length)         \* segment.shape[1]
            overlap_start == OverlapStart(s, overlap_length)
            overlap_end   == OverlapEnd(e, total_length, overlap_length)
            effective_start == EffectiveStart(s, overlap_length)
            effective_end   == EffectiveEnd(e, total_length, overlap_length)
            effective_length == Min(length - overlap_start - overlap_end,
                                    effective_end - effective_start)
            dstLen == PySliceLen(effective_start, effective_end, total_length)
            srcLen == PySliceLen(overlap_start, overlap_start + effective_length,
                                 ReplyLength(reply, length))
            copied == effective_length > 0 /\ CopyFits(dstLen, srcLen)
            next   == NextStart(s, real_segment_stride, seg_length, total_length)
            skip   == SkipStart(s, real_segment_stride, total_length)
            new_progress == NewProgress(next, total_length)
            report == HasCallback
                      /\ Significant(new_progress, current_progress, total_length)
            call == Call("window", s, e, reply)
        IN
        \* the shape of the reply is looked at by the copy at line 509 only; a
        \* malformed reply is followed where that copy is reached
        /\ reply \in Malformed =>
              /\ total_length <= MaxMalformedLen
              /\ length > 0 /\ effective_end > effective_start
        /\ iters' = iters + 1
        /\ consecutive_no_progress' = guard.counter
        /\ IF leave
           THEN \* break at line 447
                /\ segment_start' = s /\ broke' = TRUE
                /\ passes' = Append(passes, Pass(segment_start, s, s, e, "break"))
                /\ UNCHANGED <<last_segment_start, last_segment_end, segment_count,
                               current_progress, processing_times, chunk_times,
                               all_sources,
                               calls, delivered, pc, result>>
           ELSE
           /\ last_segment_start' = s /\ last_segment_end' = e
           /\ UNCHANGED broke
           /\ IF length <= 0
              THEN \* continue at line 468
                   /\ segment_start' = skip
                   /\ passes' = Append(passes, Pass(segment_start, skip, s, e, "empty"))
                   /\ UNCHANGED <<segment_count, current_progress, processing_times,
                                     chunk_times,
                                  all_sources, calls, delivered, pc, result>>
              ELSE
              /\ calls' = Append(calls, call)
              /\ IF reply = "raise"
                 THEN \* except at line 479, continue at line 483
                      /\ segment_start' = skip
                      /\ passes' = Append(passes, Pass(segment_start, skip, s, e, "failed"))
                      /\ UNCHANGED <<segment_count, current_progress, processing_times,
                                     chunk_times,
                                     all_sources, delivered, pc, result>>
                 ELSE IF effective_end <= effective_start
                 THEN \* continue at line 499
                      /\ segment_start' = skip
                      /\ passes' = Append(passes,
                                          Pass(segment_start, skip, s, e, "degenerate"))
                      /\ UNCHANGED <<segment_count, current_progress, processing_times,
                                     chunk_times,
                                     all_sources, delivered, pc, result>>
                 ELSE
                 /\ all_sources' =
                      IF copied /\ dstLen > 0
                      THEN Append(all_sources,
                                  [lo |-> PyIndex(effective_start, total_length),
                                   hi |-> PyIndex(effective_end, total_length)])
                      ELSE all_sources
                 /\ segment_start' = next
                 /\ passes' = Append(passes,
                                     Pass(segment_start, next, s, e,
                                          IF copied THEN "committed" ELSE "uncopied"))
                 /\ processing_times' = KeepLast(Append(processing_times, chunk_time))
                 /\ chunk_times' = Append(chunk_times, chunk_time)
                 /\ segment_count' = segment_count + 1
                 /\ IF report
                    THEN /\ current_progress' = new_progress
                         /\ delivered' = Append(delivered,
                                                Pct("separation", new_progress, total_length))
                         /\ IF raises
                            THEN \* the callback's exception leaves _separate_chunks
                                 pc' = "done" /\ result' = RaisedOutcome
                            ELSE UNCHANGED <<pc, result>>
                    ELSE UNCHANGED <<current_progress, delivered, pc, result>>
    /\ UNCHANGED <<inputs, params, plan, sources_count, returned, exportv, write_errors>>

\* the loop's end with an exception when the cap stopped it short of the end
LoopExitRaising ==
    /\ pc = "loop" /\ ~LoopCond
    /\ IF segment_count >= max_segments /\ segment_start < total_length
       THEN pc' = "done" /\ result' = RaisedOutcome /\ UNCHANGED returned
       ELSE /\ returned' = Returned("all_sources", 0, sources_count, total_length)
            /\ pc' = AfterReturn /\ result' = ReturnOutcome
    /\ UNCHANGED <<inputs, params, plan, loopv, sources_count, all_sources, exportv,
                   delivered, ghost>>

\* lines 570-580
LoopExit ==
    /\ pc = "loop" /\ ~LoopCond
    /\ returned' = Returned("all_sources", 0, sources_count, total_length)
    /\ pc' = AfterReturn /\ result' = ReturnOutcome
    /\ UNCHANGED <<inputs, params, plan, loopv, sources_count, all_sources, exportv,
                   delivered, ghost>>

----------------------------------------------------------------------------
(* separate_tracks, saving the tracks, lines 232-311 *)

\* the expected list kept whole, whatever the tensor holds
SourcesListWhole(expected, got) == [i \in 1..expected |-> i]
\* sources_list after the integrity check, lines 244-255 (names as their indices)
SourcesList(expected, got) ==
    IF got # expected /\ got < expected
    THEN [i \in 1..got |-> i]
    ELSE [i \in 1..expected |-> i]

\* the export steps counted from 0 instead of from the separation's share
ExportProgressNoBase(i, total_sources) ==
    Min((i + 1) * EXPORT_SHARE, FULL_PROGRESS * total_sources)
\* min(export_progress_base + (i + 1) * export_progress_step, 100), as a numerator
\* over total_sources
ExportProgress(i, total_sources) ==
    Min(SEPARATION_SHARE * total_sources + (i + 1) * EXPORT_SHARE,
        FULL_PROGRESS * total_sources)

PrepareExport ==
    /\ pc = "save"
    /\ sources_list' = SourcesList(model_sources, returned.sources)
    /\ export_index' = 0 /\ track_paths' = {}
    /\ pc' = "export"
    /\ UNCHANGED <<inputs, params, plan, loopv, bufv, result, delivered, ghost>>

\* one pass of the for loop at line 261; an exception of sf.write or of the
\* callback is caught at line 291 and the loop goes on
ExportSource ==
    /\ pc = "export" /\ export_index < Len(sources_list)
    /\ \E written \in BOOLEAN :
         LET i == export_index
             name == sources_list[i + 1]
         IN  /\ export_index' = i + 1
             /\ write_errors' = IF i < returned.sources /\ ~written
                                THEN write_errors \cup {name} ELSE write_errors
             /\ IF i >= returned.sources \/ ~written
                THEN UNCHANGED <<track_paths, delivered>>
                ELSE /\ track_paths' = track_paths \cup {name}
                     /\ delivered' =
                          IF HasCallback
                          THEN Append(delivered,
                                      Pct("export", ExportProgress(i, model_sources),
                                          model_sources))
                          ELSE delivered
    /\ UNCHANGED <<pc, inputs, params, plan, loopv, bufv, sources_list, result,
                   calls, iters, passes, chunk_times>>

ReturnTracks ==
    /\ pc = "export" /\ export_index >= Len(sources_list)
    /\ pc' = "done" /\ result' = "tracks"
    /\ UNCHANGED <<inputs, params, plan, loopv, bufv, exportv, delivered, ghost>>

----------------------------------------------------------------------------
(* _simulate_track_separation, lines 582-650, reached from line 168 *)

\* ((i + 1) / total_steps) * 100, as a numerator over total_steps
SimulatedProgress(i) == (i + 1) * FULL_PROGRESS

\* the simulated separation with a load failure answered by None
SimulateLoadCaught ==
    /\ pc = "separate_tracks" /\ ~demucs_available
    /\ IF ~loadable
       THEN pc' = "done" /\ result' = "none"
       ELSE pc' = "simulate" /\ UNCHANGED result
    /\ UNCHANGED <<inputs, params, plan, loopv, bufv, exportv, delivered, ghost>>

SimulateLoad ==
    /\ pc = "separate_tracks" /\ ~demucs_available
    /\ IF ~loadable
       THEN \* load_audio re-raises; nothing between it and the caller catches
            pc' = "done" /\ result' = "raised"
       ELSE pc' = "simulate" /\ UNCHANGED result
    /\ UNCHANGED <<inputs, params, plan, loopv, bufv, exportv, delivered, ghost>>

SimulateInstrument ==
    /\ pc = "simulate" /\ export_index < SIMULATED_INSTRUMENTS
    /\ \E written \in BOOLEAN, raises \in CbRaises :
         LET i == export_index
         IN  IF ~written
             THEN \* sf.write raises
                  /\ pc' = "done" /\ result' = "raised"
                  /\ UNCHANGED <<export_index, track_paths, delivered>>
             ELSE /\ track_paths' = track_paths \cup {i + 1}
                  /\ delivered' =
                       IF HasCallback
                       THEN Append(delivered,
                                   Pct("simulated", SimulatedProgress(i),
                                       SIMULATED_INSTRUMENTS))
                       ELSE delivered
                  /\ IF HasCallback /\ raises
                     THEN pc' = "done" /\ result' = "raised" /\ UNCHANGED export_index
                     ELSE export_index' = i + 1 /\ UNCHANGED <<pc, result>>
    /\ UNCHANGED <<inputs, params, plan, loopv, bufv, sources_list, ghost>>

SimulateReturn ==
    /\ pc = "simulate" /\ export_index >= SIMULATED_INSTRUMENTS
    /\ pc' = "done" /\ result' = "tracks"
    /\ UNCHANGED <<inputs, params, plan, loopv, bufv, exportv, delivered, ghost>>

----------------------------------------------------------------------------

Next ==
    \/ LoadAndPlan
    \/ DirectPath
    \/ PlanAndProbe
    \/ LoopIteration
    \/ LoopExit
    \/ PrepareExport
    \/ ExportSource
    \/ ReturnTracks
    \/ SimulateLoad
    \/ SimulateInstrument
    \/ SimulateReturn

Spec == Init /\ [][Next]_vars

----------------------------------------------------------------------------
(* The stall guard on its own, lines 424-453.

   In Spec no pass starts where the pass before it started, so the guard's
   counting is never exercised there.  SpecGuard runs the guard of lines
   430-453 from the loop's initial state (lines 407-420) and lets the rest of
   the body, lines 455-568, leave the playhead where it is or move it on by the
   stride: every run of the loop's guard is among these runs. *)

InitGuard ==
    /\ caller = "_separate_chunks" /\ pc = "guard"
    /\ demucs_available = TRUE /\ device = "cpu" /\ loadable = TRUE
    /\ model_sources = 1 /\ progress_callback = "none"
    /\ \E a \in [total : 1..MaxLen, seg : 1..MaxWin, ovl : 0..MaxOvl] :
         /\ a.ovl < a.seg /\ a.seg < a.total
         /\ total_length = a.total /\ seg_length = a.seg /\ overlap_length = a.ovl
         /\ real_segment_stride = Stride(a.seg, a.ovl)
         /\ actual_num_segments = ExpectedSegments(a.total, a.seg, a.ovl)
         /\ max_segments = MaxSegments(ExpectedSegments(a.total, a.seg, a.ovl))
    /\ segment_start = 0 /\ segment_count = 0
    /\ last_segment_start = -1 /\ last_segment_end = 0
    /\ current_progress = 0 /\ consecutive_no_progress = 0
    /\ processing_times = <<>> /\ broke = FALSE
    /\ sources_count = 1 /\ all_sources = <<>>
    /\ returned = Returned("nothing", 0, 0, 0)
    /\ sources_list = <<>> /\ export_index = 0 /\ track_paths = {}
    /\ result = "pending" /\ delivered = <<>>
    /\ calls = <<>> /\ iters = 0 /\ passes = <<>> /\ write_errors = {}
    /\ chunk_times = <<>> /\ DefaultBuilt

GuardStep ==
    /\ pc = "guard" /\ LoopCond
    /\ iters < MaxIters
    /\ LET guard == StallGuard(segment_start, last_segment_start,
                              consecutive_no_progress, seg_length, total_length)
       IN  /\ iters' = iters + 1
           /\ consecutive_no_progress' = guard.counter
           /\ IF guard.leave
              THEN \* break at line 447
                   /\ segment_start' = guard.start /\ broke' = TRUE
                   /\ passes' = Append(passes, Pass(segment_start, guard.start,
                                                    guard.start, guard.end, "break"))
                   /\ UNCHANGED <<last_segment_start, last_segment_end>>
              ELSE /\ last_segment_start' = guard.start /\ last_segment_end' = guard.end
                   /\ UNCHANGED broke
                   /\ \E next \in {guard.start,
                                   SkipStart(guard.start, real_segment_stride, total_length)} :
                        /\ segment_start' = next
                        /\ passes' = Append(passes, Pass(segment_start, next,
                                                         guard.start, guard.end, "body"))
    /\ UNCHANGED <<pc, inputs, params, plan, segment_count, current_progress,
                   processing_times, chunk_times, bufv, exportv, result, delivered,
                   calls, write_errors>>

NextGuard == GuardStep

SpecGuard == InitGuard /\ [][NextGuard]_vars

----------------------------------------------------------------------------
(* The history of durations on its own, lines 530-553.

   SpecTimes has the runs of Spec and, beside them, runs of the statements
   that time a window and count it (lines 530-537 and 553) with durations
   that differ from window to window. *)

InitTimes ==
    /\ caller = "_separate_chunks" /\ pc = "times"
    /\ demucs_available = TRUE /\ device = "cpu" /\ loadable = TRUE
    /\ model_sources = 1 /\ progress_callback = "none"
    /\ total_length = MaxTimed /\ seg_length = 1 /\ overlap_length = 0
    /\ NoRun /\ DefaultBuilt

RecordTime ==
    /\ pc = "times" /\ segment_count < MaxTimed
    /\ \E chunk_time \in 1..MaxTime :
         /\ processing_times' = KeepLast(Append(processing_times, chunk_time))
         /\ chunk_times' = Append(chunk_times, chunk_time)
    /\ segment_count' = segment_count + 1
    /\ UNCHANGED <<pc, inputs, params, plan, segment_start, last_segment_start,
                   last_segment_end, current_progress, consecutive_no_progress, broke,
                   bufv, exportv, result, delivered, calls, iters, passes, write_errors>>

NextTimes == Next \/ RecordTime

SpecTimes == (Init \/ InitTimes) /\ [][NextTimes]_vars

----------------------------------------------------------------------------
(* change_model, lines 721-750, on an object built by __init__: the model
   state alone, Spec's runs plus the runs of change_model calls *)

InitModels ==
    /\ caller = "change_model" /\ pc = "models"
    /\ device = "cpu" /\ loadable = TRUE
    /\ model_sources = 1 /\ progress_callback = "none"
    /\ total_length = 1 /\ seg_length = 1 /\ overlap_length = 0
    /\ NoRun
    /\ \E name \in ModelNames, imports \in BOOLEAN, first \in LoadOutcomes,
          second \in LoadOutcomes :
         LET c == Construct(name, imports, first, second)
         IN  demucs_available = c.available /\ Built(c)

change_model ==
    /\ pc = "models" /\ Len(change_returns) < MaxChanges
    /\ \E name \in ModelNames, outcome \in LoadOutcomes :
         IF ~demucs_available
         THEN /\ change_returns' = Append(change_returns, FALSE)
              /\ UNCHANGED <<model, model_name, model_cache, fetch_log>>
         ELSE LET l == LoadModel(model_cache, fetch_log, name, outcome)
              IN  /\ model_cache' = l.cache
                  /\ fetch_log' = l.log
                  /\ IF l.raised
                     THEN /\ change_returns' = Append(change_returns, FALSE)
                          /\ UNCHANGED <<model, model_name>>
                     ELSE /\ model' = l.model
                          /\ model_name' = name
                          /\ change_returns' = Append(change_returns, TRUE)
    /\ UNCHANGED <<pc, caller, demucs_available, device, loadable, progress_callback,
                   model_sources, params, plan, loopv, bufv, exportv, result,
                   delivered, ghost>>

NextModels == Next \/ change_model

SpecModels == (Init \/ InitModels) /\ [][NextModels]_vars

----------------------------------------------------------------------------
(* Vocabulary of the properties *)

\* the arguments of _separate_chunks are known and select the chunk loop
ChunkMode == seg_length > 0 /\ total_length > seg_length
\* ... or the direct path
DirectRun == seg_length > 0 /\ total_length <= seg_length
ValidConfig == seg_length > 0 /\ 0 <= overlap_length /\ overlap_length < seg_length

Ranges == {all_sources[i] : i \in 1..Len(all_sources)}
Written(p) == \E r \in Ranges : r.lo <= p /\ p < r.hi
\* Every position of [0, total) lies in an assigned range.  The first position
\* that lies in none is 0 or the position after a range, so these are the
\* positions to look at.
Covers(total) == \A p \in {0} \cup {r.hi : r \in Ranges} : p < total => Written(p)

NoCallFailed == \A i \in 1..Len(calls) : calls[i].reply = "ok"
WindowCalls == {i \in 1..Len(calls) : calls[i].kind = "window"}
LoopReturned == returned.kind = "all_sources"
Separation == {i \in 1..Len(delivered) : delivered[i].phase = "separation"}
\* a <= b for percentages
PctLeq(a, b) == IF a.den = b.den THEN a.num <= b.num ELSE a.num * b.den <= b.num * a.den

----------------------------------------------------------------------------
(* C1: in chunking mode with a valid configuration and no failed model call,
   the ranges committed by the time the loop has been left cover every
   position of [0, total_length). *)
C1_FullCoverage ==
    (ChunkMode /\ ValidConfig /\ NoCallFailed /\ LoopReturned) => Covers(total_length)

(* C2: with a valid configuration the committed effective ranges are non-empty,
   strictly increasing and pairwise disjoint: each starts at or after the end
   of every range committed before it, so no position is written twice. *)
C2_NoDoubleWrite ==
    ValidConfig =>
        \A j \in 1..Len(all_sources) :
            /\ all_sources[j].lo < all_sources[j].hi
            /\ \A i \in 1..(j - 1) : all_sources[i].hi <= all_sources[j].lo

C2_Witness ==
    /\ ValidConfig /\ overlap_length > 0
    /\ Len(all_sources) >= 3
    /\ \E i \in 1..Len(calls) : calls[i].kind = "window" /\ calls[i].reply = "raise"

(* C3: when total_length <= seg_length the direct path is taken: no pass of the
   chunk loop runs, nothing is stitched, the model is called only on the whole
   signal and exactly once by the time the method has ended (unless the
   progress callback raised before the call), and what is returned is the
   output of that one call, total_length samples long. *)
C3_DirectPath ==
    DirectRun =>
        /\ iters = 0 /\ passes = <<>> /\ all_sources = <<>>
        /\ Len(calls) <= 1
        /\ \A i \in 1..Len(calls) :
               calls[i].kind = "direct" /\ calls[i].lo = 0 /\ calls[i].hi = total_length
        /\ returned.kind # "all_sources"
        /\ returned.kind = "model_output" =>
               /\ Len(calls) = 1 /\ calls[1].reply = "ok"
               /\ returned.call = 1 /\ returned.length = total_length
        /\ (caller = "_separate_chunks" /\ pc = "done"
              /\ progress_callback # "raising") => Len(calls) = 1

C3_Witness ==
    /\ total_length = seg_length /\ total_length > 1
    /\ returned.kind = "model_output" /\ pc = "done"

(* C4: whenever overlap_length >= seg_length, an error is raised before any
   model call and before any pass of the loop, and no buffer or track is
   handed back. *)
C4_ConfigurationError ==
    (seg_length > 0 /\ overlap_length >= seg_length /\ pc # "separate_tracks") =>
        /\ calls = <<>> /\ iters = 0
        /\ returned.kind = "nothing"
        /\ result \notin {"buffer", "tracks"}

(* C5: the chunk loop makes at most max_segments passes through the while
   body, whatever the passes end in.  Stated for the runs the claim includes
   that have a valid configuration and no failed model call. *)
C5_IterationCap ==
    (ChunkMode /\ ValidConfig /\ NoCallFailed) => iters <= max_segments

(* C6: a model call that fails for a window of a chunked run, the first window
   included, is recovered locally: the call of _separate_chunks does not end in
   an exception, the failed pass moves the playhead by the stride, and in the
   returned buffer the failed windows' effective ranges are unwritten and the
   other windows' effective ranges written. *)
C6_WindowFailureRecovered ==
    (ChunkMode /\ ValidConfig /\ progress_callback # "raising"
       /\ \E i \in 1..Len(calls) : calls[i].reply = "raise") =>
        /\ result \notin {"raised", "none"}
        /\ \A k \in 1..Len(passes) :
             passes[k].how = "failed" =>
                 passes[k].to = Min(passes[k].from + real_segment_stride, total_length)
        /\ LoopReturned =>
             \A k \in 1..Len(passes) :
                LET es == EffectiveStart(passes[k].lo, overlap_length)
                    ee == EffectiveEnd(passes[k].hi, total_length, overlap_length)
                IN  /\ passes[k].how = "failed" => \A r \in Ranges : r.hi <= es \/ ee <= r.lo
                    /\ passes[k].how = "committed" => [lo |-> es, hi |-> ee] \in Ranges

(* C7: if the model call fails for every window of a chunked run,
   separate_tracks returns None and produces no track. *)
C7_AllWindowsFailed ==
    (caller = "separate_tracks" /\ ChunkMode /\ pc = "done"
       /\ WindowCalls # {} /\ \A i \in WindowCalls : calls[i].reply = "raise") =>
        result = "none" /\ track_paths = {}

(* C8: the percentages delivered in the separation phase lie in [0, 80] and
   are non-decreasing; the playhead from which progress_ratio is computed is
   non-decreasing over the passes that were not skipped and never beyond
   total_length; no delivered value is above 100. *)
C8_ProgressMonotone ==
    /\ \A i \in Separation :
         /\ 0 <= delivered[i].num
         /\ delivered[i].num <= SEPARATION_SHARE * delivered[i].den
    /\ \A i \in Separation : \A j \in Separation :
         i < j => PctLeq(delivered[i], delivered[j])
    /\ \A k \in 1..Len(passes) :
         passes[k].how \in {"committed", "uncopied"} =>
             /\ passes[k].to <= total_length
             /\ \A h \in 1..(k - 1) :
                  passes[h].how \in {"committed", "uncopied"} => passes[h].to <= passes[k].to
    /\ \A i \in 1..Len(delivered) : delivered[i].num <= FULL_PROGRESS * delivered[i].den

C8_Witness ==
    /\ ChunkMode /\ caller = "separate_tracks"
    /\ Cardinality(Separation) >= 2
    /\ \E i \in 1..Len(delivered) : delivered[i].phase = "export"
    /\ \E k \in 1..Len(passes) : passes[k].how = "failed"

(* C9 as stated: when the model is unavailable, separate_tracks produces no
   track and does not return tracks. *)
C9_UnavailableFails ==
    (caller = "separate_tracks" /\ ~demucs_available) =>
        track_paths = {} /\ result # "tracks"

(* C9 amended: when the model is unavailable, separate_tracks never calls the
   model and never returns None: it runs the simulated separation, which
   returns the six simulated tracks unless an exception of the loader, the
   writer or the callback leaves the call. *)
C9_UnavailableSimulates ==
    (caller = "separate_tracks" /\ ~demucs_available) =>
        /\ calls = <<>> /\ iters = 0
        /\ result # "none"
        /\ pc = "done" => result \in {"tracks", "raised"}
        /\ result = "tracks" => Cardinality(track_paths) = SIMULATED_INSTRUMENTS
        /\ (pc = "done" /\ ~loadable) => result = "raised" /\ track_paths = {}

C9_Witness ==
    /\ caller = "separate_tracks" /\ ~demucs_available /\ loadable
    /\ pc = "done" /\ result = "tracks"
    /\ Cardinality(track_paths) = SIMULATED_INSTRUMENTS

(* C10: when the source audio cannot be loaded, separate_tracks returns None,
   whether or not the model is available, and makes no model call. *)
C10_LoadFailureReturnsNone ==
    (caller = "separate_tracks" /\ ~loadable /\ pc = "done") =>
        result = "none" /\ calls = <<>>

(* C11: once separate_tracks has a tensor to save, the list of names it goes
   through has min(expected, returned) entries (cut to the returned count when
   the tensor holds fewer sources, left whole when it holds as many or more),
   no index it uses reaches the returned source count, every source gone
   through is saved unless its sf.write raised, and the call returns the track
   paths: all min(expected, returned) of them when no write raised. *)
C11_SourceCountTolerance ==
    (caller = "separate_tracks" /\ returned.kind # "nothing" /\ pc \in {"export", "done"}) =>
        LET kept == Min(model_sources, returned.sources)
        IN  /\ Len(sources_list) = kept
            /\ export_index <= returned.sources
            /\ track_paths \cup write_errors = 1..export_index
            /\ track_paths \cap write_errors = {}
            /\ pc = "done" => result = "tracks" /\ export_index = kept

C11_Witness ==
    /\ caller = "separate_tracks" /\ pc = "done" /\ result = "tracks"
    /\ returned.sources < model_sources
    /\ write_errors = {}
    /\ Cardinality(track_paths) = returned.sources

Committed == {k \in 1..Len(passes) : passes[k].how = "committed"}

(* C12: in chunking mode with a valid configuration the planned stride is
   seg_length - overlap_length and the expected count is the least n with
   n * stride >= total_length - overlap_length.  For 1764000 samples, windows
   of 441000 and an overlap of 4410 the stride is 436590 and the expected
   count 5, and when no model call fails the loop is left after exactly 5
   committed windows with segment_start >= total_length. *)
C12_StrideAndCount ==
    (ChunkMode /\ ValidConfig /\ calls # <<>>) =>
        /\ real_segment_stride = seg_length - overlap_length
        /\ (actual_num_segments - 1) * real_segment_stride < total_length - overlap_length
        /\ total_length - overlap_length <= actual_num_segments * real_segment_stride
        /\ (total_length = 1764000 /\ seg_length = 441000 /\ overlap_length = 4410) =>
              /\ real_segment_stride = 436590
              /\ actual_num_segments = 5
              /\ (LoopReturned /\ NoCallFailed) =>
                    /\ segment_count = 5 /\ iters = 5
                    /\ Cardinality(Committed) = 5 /\ Len(all_sources) = 5
                    /\ segment_start >= total_length

C12_Witness ==
    /\ total_length = 1764000 /\ seg_length = 441000 /\ overlap_length = 4410
    /\ LoopReturned /\ NoCallFailed
    /\ Cardinality(Committed) = 5 /\ segment_start >= total_length

\* pass k started where the pass before it started
Stalled(k) == k > 1 /\ passes[k].from = passes[k - 1].lo
\* pass k went on from another position than the one it started at
Jumped(k) == passes[k].lo # passes[k].from
\* the stalled passes in a row up to pass k, counted from the last jump
RECURSIVE StallRun(_)
StallRun(k) ==
    IF k < 1 \/ ~Stalled(k) THEN 0
    ELSE IF Jumped(k - 1) THEN 1
    ELSE StallRun(k - 1) + 1

(* C13: a pass of the loop jumps exactly when it is the 3rd stalled pass in a
   row (a stalled pass starts at the segment_start of the pass before it):
   there is no jump at the 1st or 2nd, and there is one at the 3rd, onto
   min(segment_start + 2 * seg_length, total_length).  After every pass
   consecutive_no_progress is the number of stalled passes in a row up to it,
   and 0 after a jump and after a pass that was not stalled. *)
C13_StallGuard ==
    /\ \A k \in 1..Len(passes) :
         /\ Jumped(k) <=> StallRun(k) = max_no_progress
         /\ StallRun(k) <= max_no_progress
         /\ Jumped(k) =>
               passes[k].lo = Min(passes[k].from + 2 * seg_length, total_length)
    /\ consecutive_no_progress =
         IF passes = <<>> \/ Jumped(Len(passes)) THEN 0 ELSE StallRun(Len(passes))

C13_Witness ==
    /\ consecutive_no_progress = 0
    /\ \E k \in 1..Len(passes) : Jumped(k) /\ k < Len(passes)
    /\ \E k \in 1..(Len(passes) - 1) : StallRun(k) = 2 /\ ~Stalled(k + 1)
    /\ ~Stalled(Len(passes))

\* the while condition fails on the cap with the playhead short of the end
CapReached ==
    /\ pc = "loop" /\ ~broke
    /\ segment_count >= max_segments /\ segment_start < total_length

(* C14: when the loop stops because segment_count has reached max_segments
   with segment_start < total_length, the step that leaves the loop returns
   the buffer, total_length samples long and holding exactly the ranges of
   the committed passes (the rest zero), and raises nothing. *)
C14_CapReturnsPartial ==
    [][CapReached =>
        /\ returned' = Returned("all_sources", 0, sources_count, total_length)
        /\ all_sources' = all_sources
        /\ result' \notin {"raised", "none"}
        /\ caller = "_separate_chunks" => pc' = "done" /\ result' = "buffer"
        /\ Ranges' = {[lo |-> EffectiveStart(passes[k].lo, overlap_length),
                       hi |-> EffectiveEnd(passes[k].hi, total_length, overlap_length)] :
                      k \in Committed}]_vars

C14_Witness ==
    /\ LoopReturned /\ pc = "done" /\ result = "buffer"
    /\ ~broke /\ segment_count >= max_segments /\ segment_start < total_length
    /\ returned.length = total_length

(* C15: every segment the chunk loop submits to the model lies inside the
   signal and is not empty: 0 <= segment_start < segment_end <= total_length. *)
C15_SegmentBounds ==
    \A i \in WindowCalls :
        /\ 0 <= calls[i].lo
        /\ calls[i].lo < calls[i].hi
        /\ calls[i].hi <= total_length

(* C16: each percentage the chunk loop delivers is at least 1 point away from
   the one it delivered before (from 0 for the first), and current_progress is
   the last value delivered. *)
C16_ProgressFilter ==
    ChunkMode =>
        /\ \A i \in Separation :
             /\ delivered[i].den = total_length
             /\ Abs(delivered[i].num - (IF i = 1 THEN 0 ELSE delivered[i - 1].num))
                  >= total_length
        /\ current_progress =
             IF Separation = {} THEN 0
             ELSE delivered[CHOOSE i \in Separation : \A j \in Separation : j <= i].num

C16_Witness ==
    /\ ChunkMode /\ HasCallback
    /\ Cardinality(Separation) >= 2
    /\ Cardinality(Committed) > Cardinality(Separation) + 2

Export == {i \in 1..Len(delivered) : delivered[i].phase = "export"}

(* C17: every percentage delivered while the tracks are saved lies in
   [80, 100], these percentages are non-decreasing, and every percentage of
   the separation phase is delivered before the first of them. *)
C17_ExportProgress ==
    /\ \A i \in Export :
         /\ SEPARATION_SHARE * delivered[i].den <= delivered[i].num
         /\ delivered[i].num <= FULL_PROGRESS * delivered[i].den
    /\ \A i \in Export : \A j \in Export : i < j => PctLeq(delivered[i], delivered[j])
    /\ \A i \in Export : \A j \in Separation : j < i

C17_Witness ==
    /\ caller = "separate_tracks" /\ ChunkMode /\ pc = "done"
    /\ Cardinality(Export) >= 2
    /\ Cardinality(Separation) >= 2

(* C18: a chunked run of separate_tracks on a loadable file in which no model
   call fails, so that nothing but the progress callback (or a write, caught
   per source) can fail, processes every window and returns the track
   paths. *)
C18_CallbackFailureTolerated ==
    (caller = "separate_tracks" /\ ChunkMode /\ loadable /\ pc = "done"
       /\ \A i \in 1..Len(calls) : calls[i].reply = "ok") =>
        /\ result = "tracks"
        /\ segment_start >= total_length

(* C19: a pass whose copy fails because the model's output does not have the
   shape of the effective region leaves the buffer as it was, lets no
   exception out of _separate_chunks (the pass goes on to the playhead's
   advance, the count and the progress report), and moves the playhead to
   min(segment_start + stride, total_length), as a pass that copied does; the
   range it did not copy is written by no other pass. *)
C19_CopyFailureCaught ==
    [][/\ (pc = "loop" /\ Len(calls') = Len(calls) + 1
            /\ calls'[Len(calls')].reply \in Malformed) =>
           /\ all_sources' = all_sources
           /\ segment_start' =
                Min(calls'[Len(calls')].lo + (seg_length - overlap_length), total_length)
           /\ segment_start' > segment_start
           /\ segment_count' = segment_count + 1
           /\ pc' = "loop" \/ (progress_callback = "raising"
                                  /\ Len(delivered') = Len(delivered) + 1)
       /\ \A k \in 1..Len(passes') :
            passes'[k].how = "uncopied" =>
                \A r \in Ranges' :
                    \/ r.hi <= EffectiveStart(passes'[k].lo, overlap_length)
                    \/ EffectiveEnd(passes'[k].hi, total_length, overlap_length) <= r.lo
      ]_vars

C19_Witness ==
    /\ LoopReturned
    /\ \E k \in 1..Len(passes) :
         /\ passes[k].how = "uncopied"
         /\ \E j \in Committed : j > k
         /\ \E j \in Committed : j < k

(* C20: a pass whose model call succeeds and whose effective region is
   degenerate (effective_end <= effective_start, with the overlap trimmed at
   the start unless segment_start = 0 and at the end unless segment_end =
   total_length) leaves the buffer as it was, raises nothing, counts no
   window, delivers no progress and sets the playhead to
   min(segment_start + stride, total_length), which lies ahead of
   segment_start when the configuration is valid. *)
C20_DegenerateSkipped ==
    [][(pc = "loop" /\ Len(calls') = Len(calls) + 1
          /\ calls'[Len(calls')].reply # "raise"
          /\ LET c == calls'[Len(calls')]
             IN  c.hi - (IF c.hi = total_length THEN 0 ELSE overlap_length)
                   <= c.lo + (IF c.lo = 0 THEN 0 ELSE overlap_length)) =>
         /\ all_sources' = all_sources
         /\ pc' = "loop" /\ result' = result
         /\ segment_count' = segment_count /\ delivered' = delivered
         /\ segment_start' =
              Min(calls'[Len(calls')].lo + real_segment_stride, total_length)
         /\ ValidConfig => segment_start' > segment_start
      ]_vars

C20_Witness ==
    /\ ValidConfig /\ LoopReturned
    /\ \E k \in 1..Len(passes) :
         /\ passes[k].how = "degenerate"
         /\ passes[k].to = Min(passes[k].from + real_segment_stride, total_length)
         /\ passes[k].to > passes[k].from

(* C21: when seg_length - overlap_length <= 0, every pass of the loop ends
   with segment_start at least max(1, seg_length / 4) beyond where the pass
   started. *)
C21_MinimumAdvance ==
    seg_length - overlap_length <= 0 =>
        \A k \in 1..Len(passes) :
            passes[k].to >= passes[k].from + Max(1, seg_length \div 4)

(* C22: with a valid configuration in chunking mode, whatever model calls
   fail, every pass ends with segment_start beyond where it started and
   starts beyond where the pass before it started; after n passes
   segment_start is at least min(n * stride, total_length), so that the number
   of passes never exceeds ceil(total_length / stride), and a pass is due only
   while fewer than that have run. *)
C22_LoopAdvances ==
    (ChunkMode /\ ValidConfig /\ pc \notin {"separate_tracks", "_separate_chunks"}
       /\ calls # <<>> /\ calls[1].reply = "ok") =>
        /\ \A k \in 1..Len(passes) :
             /\ passes[k].to > passes[k].from
             /\ k > 1 => passes[k].from > passes[k - 1].from
        /\ segment_start >= Min(iters * real_segment_stride, total_length)
        /\ iters > 0 => (iters - 1) * real_segment_stride < total_length
        /\ (pc = "loop" /\ LoopCond) => iters * real_segment_stride < total_length

C22_Witness ==
    /\ ChunkMode /\ ValidConfig /\ LoopReturned
    /\ segment_start >= total_length
    /\ \E k \in 1..Len(passes) : passes[k].how = "failed"
    /\ \E k \in 1..Len(passes) : passes[k].how = "degenerate"
    /\ \E k \in 1..Len(passes) : passes[k].how = "committed"
    /\ iters * real_segment_stride >= total_length

(* C23: in the runs of _separate_chunks no pass of the loop is stalled: at
   the top of a pass segment_start differs from last_segment_start, no pass
   starts where the pass before it started, consecutive_no_progress is 0 in
   every state, and no pass jumps or breaks out of the loop. *)
C23_StallUnreachable ==
    /\ consecutive_no_progress = 0 /\ ~broke
    /\ (pc = "loop" /\ LoopCond) => segment_start # last_segment_start
    /\ \A k \in 1..Len(passes) :
         ~Stalled(k) /\ ~Jumped(k) /\ passes[k].how # "break"

C23_Witness ==
    /\ pc = "loop" /\ LoopCond /\ iters >= 3
    /\ last_segment_start >= 0
    /\ \E k \in 1..Len(passes) : passes[k].how = "failed"
    /\ \E k \in 1..Len(passes) : passes[k].how = "committed"

(* C24: with a valid configuration in chunking mode, segment_count never
   exceeds the expected count, so it stays below 2 * expected while
   segment_start < total_length; hence segment_count >= max_segments together
   with segment_start < total_length occurs only when max_segments is the
   constant 1000. *)
C24_CapOnlyByConstant ==
    (ChunkMode /\ ValidConfig /\ pc \notin {"separate_tracks", "_separate_chunks"}
       /\ calls # <<>> /\ calls[1].reply = "ok") =>
        /\ (segment_count >= max_segments /\ segment_start < total_length) =>
              max_segments = SEGMENT_CAP
        /\ segment_count <= actual_num_segments
        /\ segment_start < total_length => segment_count < 2 * actual_num_segments

C24_Witness ==
    /\ ChunkMode /\ ValidConfig /\ LoopReturned /\ overlap_length > 0
    /\ max_segments = 2 * actual_num_segments /\ max_segments < SEGMENT_CAP
    /\ segment_count = actual_num_segments
    /\ iters > segment_count
    /\ segment_start >= total_length

\* the passes whose segment, as sliced at line 462, has samples
NonEmptyPasses ==
    {k \in 1..Len(passes) :
        passes[k].how # "break"
        /\ PySliceLen(passes[k].lo, passes[k].hi, total_length) > 0}

(* C25: in chunking mode, once the plan is made (the stride is not 0), the
   first model call is the probe on [0, seg_length) and the only probe; every
   other call is a window's, one for each pass with a non-empty segment, so
   that the number of calls is the number of these passes plus one and the
   first pass submits [0, seg_length) a second time; when the probe call
   fails, no pass runs and the call of _separate_chunks ends in that failure
   (separate_tracks returns None). *)
C25_ProbeAndWindowCalls ==
    (ChunkMode /\ seg_length # overlap_length
       /\ pc \notin {"separate_tracks", "_separate_chunks"}) =>
        /\ calls # <<>>
        /\ calls[1] = Call("probe", 0, seg_length, calls[1].reply)
        /\ \A i \in 2..Len(calls) : calls[i].kind = "window"
        /\ Len(calls) = Cardinality(NonEmptyPasses) + 1
        /\ iters > 0 =>
              /\ Len(calls) >= 2
              /\ calls[2].lo = 0 /\ calls[2].hi = seg_length
        /\ calls[1].reply = "raise" =>
              /\ pc = "done" /\ iters = 0 /\ returned.kind = "nothing"
              /\ result = (IF caller = "separate_tracks" THEN "none" ELSE "raised")

C25_Witness ==
    /\ ChunkMode /\ pc = "loop"
    /\ Cardinality(NonEmptyPasses) >= 2
    /\ Cardinality(NonEmptyPasses) < Len(passes)
    /\ Len(calls) = Cardinality(NonEmptyPasses) + 1
    /\ calls[2].lo = 0 /\ calls[2].hi = seg_length

(* C26: the buffer is written once per committed pass and by nothing else.
   The range written is [effective_start, effective_end), the segment
   [segment_start, segment_end) with the overlap trimmed at the start unless
   segment_start = 0 and at the end unless segment_end = total_length; it
   satisfies 0 <= effective_start < effective_end <= total_length and lies
   inside the segment, and the slice of the model's output copied into it,
   effective_length samples from overlap_start on, lies inside that output
   and has exactly effective_end - effective_start samples. *)
C26_WriteInRange ==
    /\ Len(all_sources) = Cardinality(Committed)
    /\ \A r \in Ranges : \E k \in Committed :
         r.lo >= passes[k].lo /\ r.hi <= passes[k].hi
    /\ \A k \in Committed :
         LET s  == passes[k].lo
             e  == passes[k].hi
             os == IF s = 0 THEN 0 ELSE overlap_length
             oe == IF e = total_length THEN 0 ELSE overlap_length
             es == s + os
             ee == e - oe
             el == Min((e - s) - os - oe, ee - es)
         IN  /\ 0 <= s /\ s < e /\ e <= total_length
             /\ 0 <= es /\ es < ee /\ ee <= total_length
             /\ s <= es /\ ee <= e
             /\ [lo |-> es, hi |-> ee] \in Ranges
             /\ el = ee - es
             /\ os + el <= e - s

C26_Witness ==
    /\ LoopReturned /\ NoCallFailed /\ overlap_length > 1
    /\ Len(all_sources) >= 3

\* the effective range of the segment of pass p, lines 487-493
OwnRange(p) ==
    [lo |-> p.lo + (IF p.lo = 0 THEN 0 ELSE overlap_length),
     hi |-> p.hi - (IF p.hi = total_length THEN 0 ELSE overlap_length)]

(* C27: a pass of the loop leaves the buffer as it was or writes one range,
   its own effective range, and leaves every range written before as it
   was; a pass that calls no model or whose model call fails writes nothing;
   leaving the loop writes nothing, so that in the buffer returned every
   range written is the effective range of a committed pass and every other
   position is zero. *)
C27_FrameOfAPass ==
    [][/\ (pc = "loop" /\ iters' = iters + 1) =>
           /\ \/ all_sources' = all_sources
              \/ all_sources' = Append(all_sources, OwnRange(passes'[Len(passes')]))
           /\ (Len(calls') = Len(calls) \/ calls'[Len(calls')].reply = "raise") =>
                 all_sources' = all_sources
       /\ (pc = "loop" /\ iters' = iters) => all_sources' = all_sources
       /\ LoopReturned' =>
             \A r \in Ranges' : \E k \in Committed' : r = OwnRange(passes'[k])
      ]_vars

C27_Witness ==
    /\ LoopReturned /\ overlap_length > 0
    /\ Len(all_sources) >= 2
    /\ Cardinality(Committed) < Len(passes) - 1
    /\ \E k \in 1..Len(passes) : passes[k].how = "failed" /\ k < Len(passes)
    /\ \E p \in 0..(total_length - 1) : ~Written(p)

(* C28: at the end of the loop of a chunked run with a valid configuration, a
   progress callback and no failed model call, the loop has delivered a
   percentage and the last one it delivered is greater than 79. *)
C28_LastLoopProgress ==
    (ChunkMode /\ ValidConfig /\ HasCallback /\ NoCallFailed /\ LoopReturned) =>
        /\ Separation # {}
        /\ \E i \in Separation :
             /\ \A j \in Separation : j <= i
             /\ delivered[i].num > 79 * delivered[i].den

(* C29: processing_times never holds more than 5 entries; it holds the last
   min(n, 5) of the n durations appended so far, in the order they were
   appended, one being appended for each window counted in segment_count; so
   it is not empty once a window has been timed, which is when the average
   is computed. *)
C29_RollingDurations ==
    LET n == Len(chunk_times)
        m == Len(processing_times)
    IN  /\ m <= 5
        /\ m = Min(n, 5)
        /\ \A i \in 1..m : processing_times[i] = chunk_times[n - m + i]
        /\ n = segment_count
        /\ segment_count > 0 => processing_times # <<>>

C29_Witness ==
    /\ Len(chunk_times) >= 7
    /\ Len(processing_times) = 5
    /\ chunk_times[1] # chunk_times[6]
    /\ chunk_times[2] # chunk_times[7]
    /\ processing_times[1] # processing_times[2]

\* a change_model call has just returned
ChangeReturned == Len(change_returns') = Len(change_returns) + 1
FetchesOf(name) == {i \in 1..Len(fetch_log) : fetch_log[i].name = name /\ Fetched(fetch_log[i])}

(* C30: on an object whose model loaded, after any change_model calls
   self.model is the cache entry stored under self.model_name; no model name
   is fetched from the external loader again once a load of it has succeeded;
   and a change_model call that fails, or is made without the model
   capability, returns False and leaves self.model, self.model_name and the
   cache as they were. *)
C30_ModelCache ==
    /\ [](demucs_available =>
            /\ model_name \in DOMAIN model_cache
            /\ model = model_cache[model_name])
    /\ [](\A name \in ModelNames : \A i \in FetchesOf(name) :
            fetch_log[i].how = "ok" => \A j \in FetchesOf(name) : j <= i)
    /\ [][ChangeReturned =>
            /\ ~demucs_available => ~change_returns'[Len(change_returns')]
            /\ fetch_log' # fetch_log /\ fetch_log'[Len(fetch_log')].how \in {"get_model", "to"}
                 => ~change_returns'[Len(change_returns')]
            /\ ~change_returns'[Len(change_returns')] =>
                 UNCHANGED <<model, model_name, model_cache>>]_vars

C30_Witness ==
    /\ pc = "models" /\ demucs_available
    /\ Len(change_returns) = 3
    /\ change_returns[1] /\ ~change_returns[2] /\ change_returns[3]
    /\ fetch_log[Len(fetch_log)].how = "cached"
    /\ fetch_log[Len(fetch_log) - 1].how = "to"
    /\ model_name # fetch_log[1].name
    /\ Cardinality(DOMAIN model_cache) = 2

====
